---- MODULE Spec2Model ----
(***************************************************************************)
(* Model of campus_dashboard.py: the three synthetic data generators       *)
(* (simulate_sensor_data, generate_daily_historical_data,                  *)
(* generate_campus_data), the st.cache_data memoization of the last two,   *)
(* and the script reruns of the UI sessions that call them.                *)
(*                                                                         *)
(* Numbers.  The program computes in binary floating point; the model      *)
(* computes in fixed point with integers.  Each quantity's unit is stated  *)
(* where it is computed (for instance "1e-7" means the integer n stands    *)
(* for n * 10^-7).  A random draw random.uniform(a, b) is a + (b-a)*u/1000 *)
(* for a fraction u in 0..1000 (per mille of the interval), so that both   *)
(* end points and interior points are covered.  Values reported after      *)
(* round(x, 1) are integers in tenths.                                     *)
(***************************************************************************)
EXTENDS Integers, Sequences, FiniteSets, TLC

VARIABLES
    inp,          \* inputs of a direct call: the clock and the random draws
    sensor_data,  \* result of a direct call of simulate_sensor_data
    rng,          \* state of the process-wide random source (module random)
    cache,        \* st.cache_data store: function name -> None or value
    session_state,\* st.session_state of each UI session
    out           \* what the most recent script run produced

vars == <<inp, sensor_data, rng, cache, session_state, out>>

\* Python's None (a record, so that it compares with the dicts it stands in for)
None == [none |-> TRUE]

-----------------------------------------------------------------------------
(* Arithmetic helpers *)

Max(a, b) == IF a >= b THEN a ELSE b

\* floor(a*b/d) for a, b >= 0, d > 0, computed without leaving 32 bits
MulDiv(a, b, d) == (a \div d) * b + ((a % d) * b) \div d

\* round(n/d) to the nearest integer, ties to the even one: Python's round()
RoundHalfEven(n, d) ==
    LET q == n \div d
        r == n % d
    IN  IF 2 * r < d THEN q
        ELSE IF 2 * r > d THEN q + 1
        ELSE IF q % 2 = 0 THEN q ELSE q + 1

\* 1000 * sin((month-1)/11 * pi), month 1..12 (np.sin, lines 86 and 108)
SinMonth(month) ==
    <<0, 282, 541, 756, 910, 990, 990, 910, 756, 541, 282, 0>>[month]

\* 1000 * sin((hour-6)/12 * pi), hour 6..18 (np.sin, lines 79 and 253)
SinHour(hour) ==
    <<0, 259, 500, 707, 866, 966, 1000, 966, 866, 707, 500, 259, 0>>[hour - 5]

-----------------------------------------------------------------------------
(* simulate_sensor_data(date, hour): u holds the draws, each in 0..1000 *)

\* solar_irradiance, unit 1e-5 W/m2: 800 * sin * uniform(0.8, 1.2)
SolarIrradiance(hour, u) ==
    IF 6 <= hour /\ hour <= 18
    THEN 8 * SinHour(hour) * (8000 + 4 * u.irr)
    ELSE 0

\* solar_power, unit 1e-5: solar_irradiance * 0.2 * uniform(0.9, 1.1)
SolarPower(hour, u) ==
    IF 6 <= hour /\ hour <= 18
    THEN MulDiv(SolarIrradiance(hour, u), 2 * (9000 + 2 * u.pow), 100000)
    ELSE 0

\* base_aqi, unit 1e-3: 45 + 30 * sin((month-1)/11 * pi)
BaseAqi(month) == 45000 + 30 * SinMonth(month)

\* pm25 before rounding, unit 1e-7: base_aqi * uniform(0.7, 1.3)
SensorPm25(month, u) == BaseAqi(month) * (7000 + 6 * u.pm25)

\* pm10 before rounding, unit 1e-7: pm25 * 1.5 * uniform(0.8, 1.2)
SensorPm10(month, u) ==
    MulDiv(MulDiv(SensorPm25(month, u), 15, 10), 8000 + 4 * u.pm10, 10000)

\* co2, unit 1e-3: 400 + 200 * uniform(0.5, 1.5)
SensorCo2(u) == 400000 + 200 * (500 + u.co2)

\* outdoor_temp, unit 1e-3: 5 + 15 * sin(...) + uniform(-3, 3)
OutdoorTemp(month, u) == 5000 + 15 * SinMonth(month) + (6 * u.out - 3000)

\* faulty variant: outdoor_temp + 10 * random.uniform(0.8, 1.6)
IndoorTempWideDraw(month, u) == OutdoorTemp(month, u) + 8000 + 8 * u.ind

\* indoor_temp, unit 1e-3: outdoor_temp + 10 * uniform(0.8, 1.2)
IndoorTemp(month, u) == OutdoorTemp(month, u) + 8000 + 4 * u.ind

\* humidity, unit 1e-3: 40 + 30 * uniform(0.5, 1.5)
SensorHumidity(u) == 40000 + 30 * (500 + u.hum)

\* 'Good' if pm25 < 50 else 'Moderate' if pm25 < 100 else 'Poor', on the
\* value before rounding (pm25 in 1e-7)
AqiCategory(pm25) ==
    IF pm25 < 500000000 THEN "Good"
    ELSE IF pm25 < 1000000000 THEN "Moderate" ELSE "Poor"

\* The returned dict; the water and waste sub-dicts are independent draws
\* that no other field reads and are left out.  Reported numbers in tenths.
simulate_sensor_data(month, hour, u) ==
    [ solar |->
        [ irradiance_w_m2 |-> RoundHalfEven(SolarIrradiance(hour, u), 10000),
          power_kw        |-> RoundHalfEven(SolarPower(hour, u), 10000) ],
      air_quality |->
        [ pm25 |-> RoundHalfEven(SensorPm25(month, u), 1000000),
          pm10 |-> RoundHalfEven(SensorPm10(month, u), 1000000),
          co2  |-> RoundHalfEven(SensorCo2(u), 100),
          aqi_category |-> AqiCategory(SensorPm25(month, u)) ],
      thermal |->
        [ outdoor_temp_c |-> RoundHalfEven(OutdoorTemp(month, u), 100),
          indoor_temp_c  |-> RoundHalfEven(IndoorTemp(month, u), 100),
          humidity_pct   |-> RoundHalfEven(SensorHumidity(u), 100),
          temp_delta     |->
              RoundHalfEven(IndoorTemp(month, u) - OutdoorTemp(month, u), 100) ] ]

\* the insulation indicator of the Live Sensors page, temp_delta in tenths
InsulationIndicator(temp_delta) ==
    IF temp_delta > 150 THEN "Insulation performing well"
    ELSE IF temp_delta > 100 THEN "Insulation adequate"
    ELSE "Insulation could be improved"

-----------------------------------------------------------------------------
(* The random source.  A generator state selects one stream of draws; the  *)
(* idx-th random.uniform of a call started in state seed returns the       *)
(* fraction Draw(seed, idx) of its interval.                               *)

\* number of steps of the grid the stream's draws are taken from
StreamLevels == 8

Draw(seed, idx) ==
    LET x == (idx + 1 + 977 * seed) % 46337
        h == (((x * x) % 65537) * 7919) % 65537
    IN  ((h % (StreamLevels + 1)) * 1000) \div StreamLevels

\* random.uniform(a, b) for integers a <= b, unit 1e-3
Uniform(a, b, u) == a * 1000 + (b - a) * u

-----------------------------------------------------------------------------
(* Calendar: datetime + timedelta(days=n) and the fields of the result *)

IsLeap(y) == (y % 4 = 0) /\ ((y % 100 # 0) \/ (y % 400 = 0))

DaysInMonth(y, m) ==
    IF m = 2 THEN (IF IsLeap(y) THEN 29 ELSE 28)
    ELSE IF m \in {4, 6, 9, 11} THEN 30 ELSE 31

DaysBeforeMonth(y, m) ==
    <<0, 31, 59, 90, 120, 151, 181, 212, 243, 273, 304, 334>>[m]
        + (IF m > 2 /\ IsLeap(y) THEN 1 ELSE 0)

\* proleptic Gregorian ordinal of a date (date.toordinal)
Ymd2Ord(y, m, d) ==
    LET p == y - 1
    IN  p * 365 + p \div 4 - p \div 100 + p \div 400 + DaysBeforeMonth(y, m) + d

\* the date <<year, month, day>> of an ordinal (date.fromordinal)
Ord2Ymd(ord) ==
    LET n    == ord - 1
        n400 == n \div 146097
        r400 == n % 146097
        n100 == r400 \div 36524
        r100 == r400 % 36524
        n4   == r100 \div 1461
        r4   == r100 % 1461
        n1   == r4 \div 365
        r1   == r4 % 365
        year == n400 * 400 + n100 * 100 + n4 * 4 + n1 + 1
    IN  IF n1 = 4 \/ n100 = 4 THEN <<year - 1, 12, 31>>
        ELSE LET m0    == (r1 + 50) \div 32
                 month == IF DaysBeforeMonth(year, m0) > r1 THEN m0 - 1 ELSE m0
             IN  <<year, month, r1 - DaysBeforeMonth(year, month) + 1>>

\* start_date = datetime(2016, 1, 1); start_date + timedelta(days=n)
StartDate == <<2016, 1, 1>>

DatePlusDays(date, n) == Ord2Ymd(Ymd2Ord(date[1], date[2], date[3]) + n)

-----------------------------------------------------------------------------
(* generate_campus_data(): the building catalog, the 24 hourly records and *)
(* the 120 monthly records.  Power in 1e-4 kW, peak_factor in tenths.      *)

buildings ==
    << [name |-> "Academic Block", area |-> 13500, floors |-> 4,
        students |-> 2650, base_energy |-> 5500, peak_factor |-> 13],
       [name |-> "Hostel Block A", area |-> 1800, floors |-> 3,
        students |-> 400, base_energy |-> 1800, peak_factor |-> 14],
       [name |-> "Hostel Block B", area |-> 1800, floors |-> 3,
        students |-> 400, base_energy |-> 1800, peak_factor |-> 14],
       [name |-> "Hostel Block C", area |-> 1800, floors |-> 3,
        students |-> 400, base_energy |-> 1800, peak_factor |-> 14],
       [name |-> "Support Complex", area |-> 4075, floors |-> 3,
        students |-> 700, base_energy |-> 2500, peak_factor |-> 15],
       [name |-> "Dining Hall", area |-> 600, floors |-> 1,
        students |-> 400, base_energy |-> 800, peak_factor |-> 18] >>

\* solar_capacity = 2500 kW
solar_capacity == 2500

\* faulty variant: the lower end of the daylight gate dropped: if hour <= 18
SolarKwUngated(hour, u) ==
    IF hour <= 18
    THEN (solar_capacity \div 100) * (900 + u \div 5)
             * (IF hour >= 6 THEN SinHour(hour) ELSE 0 - SinHour(12 - hour))
    ELSE 0

\* hour_data["solar_kw"]: solar_capacity * solar_factor * uniform(0.9, 1.1)
\* inside 6..18, else 0
SolarKw(hour, u) ==
    IF 6 <= hour /\ hour <= 18
    THEN (solar_capacity \div 100) * SinHour(hour) * (900 + u \div 5)
    ELSE 0

\* faulty variant: two separate if statements that add up, so that hour 18
\* takes the daytime and the evening contribution
BaseDemandAddsBoth(hour, data) ==
    (IF 8 <= hour /\ hour <= 18 THEN data.base_energy * 8 ELSE 0)
        + (IF 18 <= hour /\ hour <= 23 THEN data.base_energy * data.peak_factor ELSE 0)
        + (IF hour < 8 THEN data.base_energy * 3 ELSE 0)

\* faulty variant: the evening condition reads 18 <= hour <= 22
BaseDemandEveningTo22(hour, data) ==
    IF 8 <= hour /\ hour <= 18 THEN data.base_energy * 8
    ELSE IF 18 <= hour /\ hour <= 22 THEN data.base_energy * data.peak_factor
    ELSE data.base_energy * 3

\* the demand before the random variation: the if / elif / else on the hour
BaseDemand(hour, data) ==
    IF 8 <= hour /\ hour <= 18 THEN data.base_energy * 8
    ELSE IF 18 <= hour /\ hour <= 23 THEN data.base_energy * data.peak_factor
    ELSE data.base_energy * 3

\* demand *= random.uniform(0.85, 1.15)
Demand(hour, data, u) == BaseDemand(hour, data) * (850 + (3 * u) \div 10)

\* faulty variant: total_demand = demand instead of total_demand += demand
TotalDemandAssigned(kw, n) == IF n = 0 THEN 0 ELSE kw[n]

\* total_demand after the first n buildings of the loop
RECURSIVE TotalDemand(_, _)
TotalDemand(kw, n) == IF n = 0 THEN 0 ELSE TotalDemand(kw, n - 1) + kw[n]

\* faulty variant: the operands of the subtraction exchanged
GridImportSwapped(total, solar) == Max(0, solar - total)

\* max(0, total_demand - hour_data["solar_kw"])
GridImport(total, solar) == Max(0, total - solar)

\* 50 + 30*sin((hour-6)/12*pi) if hour <= 18 else max(20, 80 - (hour-18)*10),
\* unit 1e-3
BatterySoc(hour) ==
    IF hour <= 18
    THEN 50000 + 30 * (IF hour >= 6 THEN SinHour(hour) ELSE 0 - SinHour(12 - hour))
    ELSE 1000 * Max(20, 80 - (hour - 18) * 10)

\* draws made before the record of this hour for a catalog: one per building
\* per hour, and one more for each earlier hour inside 6..18
HourDrawBaseOf(catalog, hour) ==
    hour * Len(catalog)
        + (IF hour <= 6 THEN 0 ELSE IF hour <= 19 THEN hour - 6 ELSE 13)

\* the same for the catalog of the function
HourDrawBase(hour) == HourDrawBaseOf(buildings, hour)

\* one pass of the loop over hours, with the inner loop running over the
\* items of catalog: the record appended to hourly_data
HourDataOf(catalog, hour, seed) ==
    LET base  == HourDrawBaseOf(catalog, hour)
        day   == 6 <= hour /\ hour <= 18
        solar == SolarKw(hour, Draw(seed, base))
        first == IF day THEN base + 1 ELSE base
        kw    == [b \in 1..Len(catalog) |->
                     Demand(hour, catalog[b], Draw(seed, first + b - 1))]
        total == TotalDemand(kw, Len(catalog))
    IN  [ hour |-> hour,
          solar_kw |-> solar,
          kw |-> kw,
          total_demand_kw |-> total,
          grid_import_kw |-> GridImport(total, solar),
          battery_soc |-> BatterySoc(hour) ]

\* the pass for the catalog of the function
HourData(hour, seed) == HourDataOf(buildings, hour, seed)

\* hours = list(range(24)); df_hourly = pd.DataFrame(hourly_data)
HourlyTable(seed) == [i \in 1..24 |-> HourData(i - 1, seed)]

\* the seasonal branch of the monthly loop: the ranges of temp, solar, rain
MonthlySeason(month) ==
    IF month \in {12, 1, 2}
    THEN [temp |-> <<2, 8>>, solar |-> <<3000, 4500>>, rain |-> <<40, 80>>]
    ELSE IF month \in {3, 4, 5}
    THEN [temp |-> <<15, 22>>, solar |-> <<6000, 8000>>, rain |-> <<30, 60>>]
    ELSE IF month \in {6, 7, 8, 9}
    THEN [temp |-> <<18, 25>>, solar |-> <<2500, 4000>>, rain |-> <<150, 300>>]
    ELSE [temp |-> <<12, 18>>, solar |-> <<4500, 6000>>, rain |-> <<20, 40>>]

\* the hourly loop makes 24*6 + 13 draws before the monthly loop starts
MonthlyDrawBase(i) == 24 * Len(buildings) + 13 + 7 * i

\* monthly_data[i]: date = start_date + timedelta(days=30*i)
MonthlyData(i, seed) ==
    LET date  == DatePlusDays(StartDate, 30 * i)
        r     == MonthlySeason(date[2])
        base  == MonthlyDrawBase(i)
        temp  == Uniform(r.temp[1], r.temp[2], Draw(seed, base))
        solar == Uniform(r.solar[1], r.solar[2], Draw(seed, base + 1))
        rain  == Uniform(r.rain[1], r.rain[2], Draw(seed, base + 2))
    IN  [ date |-> date,
          month |-> date[2],
          year |-> date[1],
          temperature |-> RoundHalfEven(temp + (date[1] - 2016) * 200, 100),
          solar_kwh |->
              RoundHalfEven(MulDiv(solar, 900 + Draw(seed, base + 3) \div 5, 1000), 1000),
          rainfall_mm |->
              RoundHalfEven(MulDiv(rain, 700 + (3 * Draw(seed, base + 4)) \div 5, 1000), 100),
          energy_demand_kwh |->
              RoundHalfEven(Uniform(14000, 18000, Draw(seed, base + 5)), 1000),
          aqi |-> RoundHalfEven(Uniform(40, 120, Draw(seed, base + 6)), 1000) ]

MonthlyTable(seed) == [i \in 1..120 |-> MonthlyData(i - 1, seed)]

\* return buildings, df_hourly, df_monthly
generate_campus_data(seed) ==
    [ buildings |-> buildings,
      df_hourly |-> HourlyTable(seed),
      df_monthly |-> MonthlyTable(seed) ]

-----------------------------------------------------------------------------
(* generate_daily_historical_data(): one record per day, 3650 days *)

\* range(3650)
DayCount == 3650

\* faulty variant: the first branch reads 3 <= month <= 6
DailySolarRangeJune(month) ==
    IF 3 <= month /\ month <= 6 THEN <<800, 1200>>
    ELSE IF 6 <= month /\ month <= 9 THEN <<300, 600>>
    ELSE IF 10 <= month /\ month <= 11 THEN <<500, 800>>
    ELSE <<400, 700>>

\* the solar branch: if 3 <= month <= 5 / elif 6 <= month <= 9 /
\* elif 10 <= month <= 11 / else
DailySolarRange(month) ==
    IF 3 <= month /\ month <= 5 THEN <<800, 1200>>
    ELSE IF 6 <= month /\ month <= 9 THEN <<300, 600>>
    ELSE IF 10 <= month /\ month <= 11 THEN <<500, 800>>
    ELSE <<400, 700>>

\* solar *= (1 + (year-2016) * 0.01), unit 1e-3
DailySolar(month, year, u) ==
    LET r == DailySolarRange(month)
    IN  MulDiv(Uniform(r[1], r[2], u), 100 + (year - 2016), 100)

\* aqi_base
AqiBase(month) ==
    IF month \in {12, 1, 2} THEN 80
    ELSE IF month \in {6, 7, 8, 9} THEN 40
    ELSE 55

\* faulty variant: random.uniform(0.07, 1.3)
DailyPm25WideDraw(month, u) == AqiBase(month) * (700 + (123 * u) \div 10)

\* pm25 = aqi_base * random.uniform(0.7, 1.3), unit 1e-4
DailyPm25(month, u) == AqiBase(month) * (7000 + 6 * u)

\* faulty variant: the factor 1.5 of the sensor snapshot used: pm10 = pm25 * 1.5
DailyPm10Factor15(pm25) == pm25 * 15

\* pm10 = pm25 * 1.6, unit 1e-5
DailyPm10(pm25) == pm25 * 16

\* the temperature branch
DailyTempRange(month) ==
    IF month \in {12, 1, 2} THEN <<2, 8>>
    ELSE IF month \in {3, 4, 5} THEN <<12, 20>>
    ELSE IF month \in {6, 7, 8, 9} THEN <<18, 24>>
    ELSE <<8, 15>>

DailyTemp(month, u) ==
    LET r == DailyTempRange(month)
    IN  Uniform(r[1], r[2], u)

\* the dict appended to daily_data for dates[i]; the date string
\* '%Y-%m-%d' is kept as <<year, month, day>>.  solar_kwh, pm25, pm10,
\* waste_kg, temperature_c and heating_demand in tenths, water in litres.
DailyRecord(i, seed) ==
    LET date  == DatePlusDays(StartDate, i)
        month == date[2]
        year  == date[1]
        pm25  == DailyPm25(month, Draw(seed, 6 * i + 1))
    IN  [ date |-> date,
          year |-> year,
          month |-> month,
          day |-> date[3],
          solar_kwh |->
              RoundHalfEven(DailySolar(month, year, Draw(seed, 6 * i)), 100),
          pm25 |-> RoundHalfEven(pm25, 1000),
          pm10 |-> RoundHalfEven(DailyPm10(pm25), 10000),
          water_consumption_l |->
              RoundHalfEven(105 * (8000 + 4 * Draw(seed, 6 * i + 2)), 2),
          waste_kg |-> RoundHalfEven(14 * (9000 + 2 * Draw(seed, 6 * i + 3)), 10),
          temperature_c |->
              RoundHalfEven(DailyTemp(month, Draw(seed, 6 * i + 4)), 100),
          heating_demand |->
              RoundHalfEven(Uniform(500, 2000, Draw(seed, 6 * i + 5)), 100) ]

\* faulty variant: range(1, 3651)
DailyFromDayOne(seed) == [i \in 1..DayCount |-> DailyRecord(i, seed)]

\* dates = [start_date + timedelta(days=i) for i in range(3650)];
\* return pd.DataFrame(daily_data)
generate_daily_historical_data(seed) ==
    [i \in 1..DayCount |-> DailyRecord(i - 1, seed)]

-----------------------------------------------------------------------------
(* st.cache_data: both generators are memoized in one store for the whole  *)
(* process.  An entry keeps the returned value; "by" records the session   *)
(* whose call computed it.                                                 *)

Sessions == {1, 2}

\* st.session_state of a fresh session: no key set
NoSessionState == [s \in Sessions |-> {}]

Functions == {"generate_campus_data", "generate_daily_historical_data"}

\* what the undecorated function returns when run with the generator in
\* state seed
Compute(f, seed) ==
    IF f = "generate_campus_data" THEN generate_campus_data(seed)
    ELSE generate_daily_historical_data(seed)

\* number of generator states the model distinguishes
RngStates == 128

\* the generator state after a run of draws
Advance(seed) == (seed + 1) % RngStates

\* faulty variant: the decorator missing: every call runs the function
UncachedCall(s, f) ==
    /\ cache' = [cache EXCEPT ![f] = [value |-> Compute(f, rng), by |-> s]]
    /\ out' = [session |-> s, fn |-> f, value |-> Compute(f, rng), by |-> s]
    /\ rng' = Advance(rng)
    /\ UNCHANGED <<inp, sensor_data, session_state>>

\* a call of the memoized f by session s: the stored value on a hit,
\* otherwise the function runs, draws, and its result is stored
CachedCall(s, f) ==
    /\ IF cache[f] # None
       THEN /\ out' = [session |-> s, fn |-> f,
                       value |-> cache[f].value, by |-> cache[f].by]
            /\ UNCHANGED <<cache, rng>>
       ELSE LET v == Compute(f, rng)
            IN  /\ cache' = [cache EXCEPT ![f] = [value |-> v, by |-> s]]
                /\ out' = [session |-> s, fn |-> f, value |-> v, by |-> s]
                /\ rng' = Advance(rng)
    /\ UNCHANGED <<inp, sensor_data, session_state>>

\* the cache is emptied (Clear cache in the app menu, or a restart)
ClearCache ==
    /\ \E f \in Functions : cache[f] # None
    /\ cache' = [f \in Functions |-> None]
    /\ UNCHANGED <<inp, sensor_data, rng, session_state, out>>

EmptyCache == [f \in Functions |-> None]

-----------------------------------------------------------------------------
(* One run of each generator from every generator state *)

InitGen ==
    /\ inp = None
    /\ sensor_data = None
    /\ rng \in 0..(RngStates - 1)
    /\ cache = EmptyCache
    /\ session_state = NoSessionState
    /\ out = None

\* no generator has been called yet
NothingCalled == out = None /\ sensor_data = None

\* the draws of one simulate_sensor_data call in the order the code makes
\* them: two for solar inside 6..18, then pm25, pm10, co2, four for water,
\* six for the bins, then outdoor, indoor, humidity
SensorDraws(seed, hour) ==
    LET b == IF 6 <= hour /\ hour <= 18 THEN 2 ELSE 0
    IN  [ irr |-> Draw(seed, 0), pow |-> Draw(seed, 1),
          pm25 |-> Draw(seed, b), pm10 |-> Draw(seed, b + 1),
          co2 |-> Draw(seed, b + 2), out |-> Draw(seed, b + 13),
          ind |-> Draw(seed, b + 14), hum |-> Draw(seed, b + 15) ]

\* simulate_sensor_data(datetime.now(), current_hour) at some clock reading
CallSensorNow ==
    /\ NothingCalled
    /\ \E month \in 1..12, hour \in {3, 15} :
           sensor_data' = simulate_sensor_data(month, hour, SensorDraws(rng, hour))
    /\ rng' = Advance(rng)
    /\ UNCHANGED <<inp, cache, session_state, out>>

CallCampus == NothingCalled /\ CachedCall(1, "generate_campus_data")

CallDaily == NothingCalled /\ CachedCall(1, "generate_daily_historical_data")

NextGen == CallCampus \/ CallDaily \/ CallSensorNow

SpecGen == InitGen /\ [][NextGen]_vars

-----------------------------------------------------------------------------
(* The memoized generators called by the script runs of two sessions *)

\* number of times the cache is emptied in a run of the model
MaxClears == 2

InitCache ==
    /\ inp = None
    /\ sensor_data = None
    /\ rng = 0
    /\ cache = EmptyCache
    /\ session_state = NoSessionState
    /\ out = None

\* line 325 (every script run) and line 894 (the daily page)
Call(s, f) == CachedCall(s, f)

Invalidate == rng <= MaxClears /\ ClearCache

NextCache == (\E s \in Sessions, f \in Functions : Call(s, f)) \/ Invalidate

SpecCache == InitCache /\ [][NextCache]_vars

-----------------------------------------------------------------------------
(* Direct call of simulate_sensor_data on enumerated inputs *)

\* number of steps of the grid the enumerated draws are taken from
FineLevels == 19
CoarseLevels == 7

Grid(levels) == { (k * 1000) \div levels : k \in 0..levels }

SensorHours == {0, 6, 12, 18}

SensorInputs ==
    [ month : 1..12, hour : SensorHours,
      u : [ irr : {0, 1000}, pow : {500}, pm25 : Grid(FineLevels),
            pm10 : {0, 500, 1000}, co2 : {500},
            out : Grid(CoarseLevels), ind : Grid(CoarseLevels),
            hum : {0, 1000} ] ]

InitSensor ==
    /\ inp \in SensorInputs
    /\ sensor_data = None
    /\ rng = 0
    /\ cache = EmptyCache
    /\ session_state = NoSessionState
    /\ out = None

CallSensor ==
    /\ sensor_data = None
    /\ sensor_data' = simulate_sensor_data(inp.month, inp.hour, inp.u)
    /\ UNCHANGED <<inp, rng, cache, session_state, out>>

SpecSensor == InitSensor /\ [][CallSensor]_vars

-----------------------------------------------------------------------------
(* SpecCatalog: the hourly loop of generate_campus_data run over a catalog  *)
(* given as input: the catalog of the function or a shorter one, down to    *)
(* the empty catalog.                                                       *)

\* the catalogs tried: the first n buildings of the literal, n = 0..6
Catalogs == {SubSeq(buildings, 1, n) : n \in 0..Len(buildings)}

InitCatalog ==
    /\ rng \in 0..(RngStates - 1)
    /\ inp \in [catalog : Catalogs]
    /\ sensor_data = None
    /\ cache = EmptyCache
    /\ session_state = NoSessionState
    /\ out = None

\* the loop over hours: nothing looks at the size of the catalog and no
\* statement raises, so a table of 24 records is built for every catalog
GenerateHourly ==
    /\ out = None
    /\ out' = [ fn |-> "hourly_profile",
                catalog |-> inp.catalog,
                raised |-> "",
                value |-> [i \in 1..24 |-> HourDataOf(inp.catalog, i - 1, rng)] ]
    /\ rng' = Advance(rng)
    /\ UNCHANGED <<inp, sensor_data, cache, session_state>>

NextCatalog == GenerateHourly

SpecCatalog == InitCatalog /\ [][NextCatalog]_vars

-----------------------------------------------------------------------------
(* SpecDailyPage: script runs of the body of the 10-Year Daily Data page by *)
(* the sessions: the memoized daily table, the two date inputs, the filter. *)

\* what a call of the memoized f returns in the current state, and the
\* cache and the generator after the call by session s
CacheReturns(f) == IF cache[f] # None THEN cache[f].value ELSE Compute(f, rng)

CacheAfter(s, f) ==
    IF cache[f] # None THEN cache
    ELSE [cache EXCEPT ![f] = [value |-> Compute(f, rng), by |-> s]]

RngAfter(f) == IF cache[f] # None THEN rng ELSE Advance(rng)

\* pd.to_datetime of a date: a point on the time axis, here the day number
ToDatetime(date) == Ymd2Ord(date[1], date[2], date[3])

\* faulty variant: the upper comparison strict: date < end_date
FilterEndExclusive(daily_df, start_date, end_date) ==
    SelectSeq(daily_df,
              LAMBDA row : /\ ToDatetime(row.date) >= ToDatetime(start_date)
                           /\ ToDatetime(row.date) < ToDatetime(end_date))

\* mask = (date >= start_date) & (date <= end_date); daily_df[mask]: a new
\* table of the rows where the mask holds, in the order of daily_df
FilterByDate(daily_df, start_date, end_date) ==
    SelectSeq(daily_df,
              LAMBDA row : /\ ToDatetime(row.date) >= ToDatetime(start_date)
                           /\ ToDatetime(row.date) <= ToDatetime(end_date))

\* dates the user picks in the Start Date and in the End Date input
StartDates == { <<2016, 1, 1>>, <<2016, 1, 2>>, <<2020, 2, 29>>, <<2026, 1, 1>> }

EndDates == { <<2016, 12, 31>>, <<2020, 2, 29>>, <<2025, 12, 27>>, <<2026, 12, 31>> }

\* number of generator states the page runs start from
PageSeeds == 2

InitDailyPage ==
    /\ rng \in 0..(PageSeeds - 1)
    /\ inp = None
    /\ sensor_data = None
    /\ cache = EmptyCache
    /\ session_state = NoSessionState
    /\ out = None

\* one run of the page body by session s with the two dates picked; an
\* empty filtered table is charted and summarised like any other (the
\* statistics of an empty column are nan), nothing raises
DailyDataPage(s, start_date, end_date) ==
    LET f        == "generate_daily_historical_data"
        daily_df == CacheReturns(f)
    IN  /\ cache' = CacheAfter(s, f)
        /\ rng' = RngAfter(f)
        /\ out' = [ session |-> s,
                    fn |-> "daily_data_page",
                    start_date |-> start_date,
                    end_date |-> end_date,
                    raised |-> "",
                    filtered_df |-> FilterByDate(daily_df, start_date, end_date) ]
        /\ UNCHANGED <<inp, sensor_data, session_state>>

RunDailyPage ==
    \E s \in Sessions : \E start_date \in StartDates : \E end_date \in EndDates :
        DailyDataPage(s, start_date, end_date)

NextDailyPage == RunDailyPage

SpecDailyPage == InitDailyPage /\ [][NextDailyPage]_vars

-----------------------------------------------------------------------------
(* The Scenario Analysis page: the widgets and the results panel.           *)
(* Factors are in twentieths (0.85 is 17), hvac_cop in tenths (3.5 is 35),  *)
(* energy is the exact fraction num / den of kWh per day.                   *)

insulation_factors == [Poor |-> 20, Standard |-> 18, High |-> 15]

window_factors == [Single |-> 20, Double |-> 17, Triple |-> 15]

\* 0.85 if lighting == "LED" else 1.0
lighting_factor(lighting) == IF lighting = "LED" THEN 17 ELSE 20

\* the values the widgets offer: two select sliders, three sliders with
\* their steps, one radio
Widgets ==
    [ insulation : DOMAIN insulation_factors,
      windows    : DOMAIN window_factors,
      solar_area : {100 * h : h \in 0..50},
      occupancy  : {5 * k : k \in 0..20},
      hvac_cop   : 20..50,
      lighting   : {"Conventional", "LED"} ]

\* the values the widgets show before the user touches them
DefaultWidgets ==
    [ insulation |-> "Standard", windows |-> "Double", solar_area |-> 2000,
      occupancy |-> 70, hvac_cop |-> 35, lighting |-> "Conventional" ]

\* base_energy times the five factors, minus solar_offset = solar_area * 150
\* / 365, before the clamp.  15000 * (i/20) * (w/20) * (l/20) * (0.8 + 0.4 *
\* occupancy/100) * (35/cop) = 21 * P / (16 * cop) with P = i * w * l * (40
\* + occupancy/5); minus 30 * solar_area / 73, over the denominator 1168 * cop
EnergyDen(w) == 1168 * w.hvac_cop

EnergyBeforeClamp(w) ==
    LET P == insulation_factors[w.insulation] * window_factors[w.windows]
                 * lighting_factor(w.lighting) * (40 + w.occupancy \div 5)
    IN  1533 * P - 480 * w.solar_area * w.hvac_cop

\* faulty variant: the clamp missing: energy = energy - solar_offset
EnergyUnclamped(w) == EnergyBeforeClamp(w)

\* energy = max(5000, energy - solar_offset), as a numerator over EnergyDen
Energy(w) == Max(5000 * EnergyDen(w), EnergyBeforeClamp(w))

\* the results panel: the Daily Energy metric shows energy with no decimals;
\* the Solar Payback metric exists only if solar_area > 0, and is solar_cost
\* = solar_area * 45000 / 0.3 divided by the yearly savings in rupees, which
\* are saved (kWh per day, over EnergyDen) times 365 * 6; the division
\* raises if the savings are zero
ScenarioResults(w) ==
    LET saved == 15000 * EnergyDen(w) - Energy(w)
    IN  [ energy_num |-> Energy(w),
          energy_den |-> EnergyDen(w),
          daily_energy |-> RoundHalfEven(Energy(w), EnergyDen(w)),
          payback |-> IF w.solar_area > 0
                      THEN IF saved = 0 THEN [raised |-> "ZeroDivisionError"]
                           ELSE [ solar_cost |-> 150000 * w.solar_area,
                                  saved_num |-> saved,
                                  saved_den |-> EnergyDen(w) ]
                      ELSE None ]

\* faulty variant: the session flag is not consulted: if analyze:
ShowResultsOnClickOnly(analyze, state) == analyze

\* if analyze or "last_analysis" in st.session_state:
ShowResults(analyze, state) == analyze \/ "last_analysis" \in state

-----------------------------------------------------------------------------
(* SpecScenario: one run of the results panel for every combination of the  *)
(* widgets' values.                                                         *)

InitScenario ==
    /\ inp \in Widgets
    /\ rng = 0
    /\ sensor_data = None
    /\ cache = EmptyCache
    /\ session_state = NoSessionState
    /\ out = None

AnalyzeScenario ==
    /\ out = None
    /\ out' = [ session |-> 1, fn |-> "scenario_results",
                widgets |-> inp, results |-> ScenarioResults(inp) ]
    /\ session_state' = [session_state EXCEPT ![1] = @ \cup {"last_analysis"}]
    /\ UNCHANGED <<inp, sensor_data, rng, cache>>

NextScenario == AnalyzeScenario

SpecScenario == InitScenario /\ [][NextScenario]_vars

-----------------------------------------------------------------------------
(* Spec: the script runs (reruns) of the UI sessions: the memoized campus   *)
(* data, the sidebar, and the page body chosen by the sidebar's radio.      *)

\* the options of the sidebar radio, in order
Pages ==
    << "Dashboard", "Simulation Results", "Digital Twin", "Scenario Analysis",
       "Cost & Sustainability", "Analytics", "System Architecture",
       "Live Sensors", "10-Year Daily Data" >>

\* the branches of the page chain in the order of the source: the keyword,
\* the option the condition compares page with, and the body under it.  The
\* else carries the System Architecture body and stands before the last two
\* elif branches; Python does not accept an elif after an else (SyntaxError:
\* invalid syntax, line 832).  The chain is read in source order here.
PageChain ==
    << [kw |-> "if",   option |-> "Dashboard",             body |-> "Dashboard"],
       [kw |-> "elif", option |-> "Simulation Results",    body |-> "Simulation Results"],
       [kw |-> "elif", option |-> "Digital Twin",          body |-> "Digital Twin"],
       [kw |-> "elif", option |-> "Scenario Analysis",     body |-> "Scenario Analysis"],
       [kw |-> "elif", option |-> "Cost & Sustainability", body |-> "Cost & Sustainability"],
       [kw |-> "elif", option |-> "Analytics",             body |-> "Analytics"],
       [kw |-> "else", option |-> "",                      body |-> "System Architecture"],
       [kw |-> "elif", option |-> "Live Sensors",          body |-> "Live Sensors"],
       [kw |-> "elif", option |-> "10-Year Daily Data",    body |-> "10-Year Daily Data"] >>

\* does the branch take the page: an else takes every page that reaches it
Takes(branch, page) == branch.kw = "else" \/ branch.option = page

\* the body rendered for a page: that of the first branch that takes it
Dispatch(page) ==
    LET i == CHOOSE k \in 1..Len(PageChain) :
                 /\ Takes(PageChain[k], page)
                 /\ \A j \in 1..(k - 1) : ~Takes(PageChain[j], page)
    IN  PageChain[i].body

\* the generator functions a body calls
BodyCalls(body) ==
    IF body = "Live Sensors" THEN {"simulate_sensor_data"}
    ELSE IF body = "10-Year Daily Data" THEN {"generate_daily_historical_data"}
    ELSE {}

\* the clock readings of the reruns: datetime.now() as month and hour
Clock == { [month |-> 1, hour |-> 3], [month |-> 6, hour |-> 15] }

\* the widget values set in the reruns of the Scenario Analysis page: the
\* defaults, a setting the clamp applies to, one with no solar panels
RerunWidgets ==
    { DefaultWidgets,
      [ insulation |-> "High", windows |-> "Triple", solar_area |-> 5000,
        occupancy |-> 0, hvac_cop |-> 50, lighting |-> "LED" ],
      [ insulation |-> "Poor", windows |-> "Single", solar_area |-> 0,
        occupancy |-> 100, hvac_cop |-> 20, lighting |-> "Conventional" ] }

\* the reruns of one run of the model end when the generator has reached
\* this state: every rerun draws, so the generator state counts them
MaxReruns == 6

Init ==
    /\ inp = None
    /\ sensor_data = None
    /\ rng = 0
    /\ cache = EmptyCache
    /\ session_state = NoSessionState
    /\ out = None

\* one script run of session s: generate_campus_data() (memoized), the row of
\* the current hour, the sidebar with its five draws, then the page body
\* that the chain selects.  w and analyze are the widgets and the button of
\* the Scenario Analysis page; analyze is True only in the run a click starts
Rerun(s, page, now, w, analyze) ==
    LET f      == "generate_campus_data"
        g      == "generate_daily_historical_data"
        body   == Dispatch(page)
        campus == CacheReturns(f)
        cache1 == CacheAfter(s, f)
        rng1   == Advance(RngAfter(f))
        daily  == body = "10-Year Daily Data"
        sensor == body = "Live Sensors"
        scen   == body = "Scenario Analysis"
        show   == scen /\ ShowResults(analyze, session_state[s])
    IN  /\ rng < MaxReruns
        /\ cache' = IF daily /\ cache1[g] = None
                    THEN [cache1 EXCEPT ![g] = [value |-> Compute(g, rng1), by |-> s]]
                    ELSE cache1
        /\ rng' = IF sensor \/ (daily /\ cache1[g] = None) THEN Advance(rng1) ELSE rng1
        /\ sensor_data' = IF sensor
                          THEN simulate_sensor_data(now.month, now.hour,
                                                    SensorDraws(rng1, now.hour))
                          ELSE sensor_data
        /\ session_state' = IF show
                            THEN [session_state EXCEPT ![s] = @ \cup {"last_analysis"}]
                            ELSE session_state
        /\ out' = [ session |-> s,
                    fn |-> "rerun",
                    page |-> page,
                    current_hour |-> campus.df_hourly[now.hour + 1].hour,
                    body |-> body,
                    calls |-> {f} \cup BodyCalls(body),
                    analyze |-> analyze,
                    widgets |-> IF scen THEN w ELSE None,
                    panel |-> IF show THEN "results" ELSE IF scen THEN "hint" ELSE "",
                    results |-> IF show THEN ScenarioResults(w) ELSE None ]
        /\ UNCHANGED inp

\* a rerun on a page other than Scenario Analysis: its widgets do not exist
RerunPage ==
    \E s \in Sessions : \E k \in 1..Len(Pages) : \E now \in Clock :
        /\ Pages[k] # "Scenario Analysis"
        /\ Rerun(s, Pages[k], now, DefaultWidgets, FALSE)

\* a rerun on Scenario Analysis after a widget change (analyze False) or
\* after a click on Analyze Scenario (analyze True)
RerunScenario ==
    \E s \in Sessions : \E now \in Clock : \E w \in RerunWidgets :
        \E analyze \in BOOLEAN :
            Rerun(s, "Scenario Analysis", now, w, analyze)

Next == RerunPage \/ RerunScenario

Spec == Init /\ [][Next]_vars

-----------------------------------------------------------------------------
(* Properties *)

\* the value most recently returned by generate_campus_data / by
\* generate_daily_historical_data
CampusReturned == out # None /\ out.fn = "generate_campus_data"

DailyReturned == out # None /\ out.fn = "generate_daily_historical_data"

RECURSIVE SumOver(_, _)
SumOver(f, S) ==
    IF S = {} THEN 0
    ELSE LET x == CHOOSE y \in S : TRUE IN f[x] + SumOver(f, S \ {x})

\* C1: in each of the 24 hourly records total_demand_kw is the sum of the
\* record's per-building fields, one field per building of the catalog.
C1_TotalDemandIsSumOfBuildings ==
    CampusReturned =>
        /\ Len(out.value.df_hourly) = 24
        /\ \A i \in 1..24 :
              LET row == out.value.df_hourly[i]
              IN  /\ DOMAIN row.kw = 1..Len(out.value.buildings)
                  /\ row.total_demand_kw = SumOver(row.kw, DOMAIN row.kw)

C1_Witness ==
    /\ CampusReturned
    /\ \E i \in 1..24 :
          LET row == out.value.df_hourly[i]
          IN  /\ row.hour = 20
              /\ \A b \in DOMAIN row.kw : row.kw[b] > 0 /\ row.kw[b] < row.total_demand_kw
              /\ row.kw[1] # row.kw[2]

\* C2: in each hourly record grid_import_kw equals
\* max(0, total_demand_kw - solar_kw) and is never negative; the same
\* function gives 0 when solar exceeds demand.
C2_GridImportIsClampedDifference ==
    /\ \A total \in {0, 1000, 5000}, solar \in {0, 1000, 7000} :
          GridImport(total, solar) = (IF solar > total THEN 0 ELSE total - solar)
    /\ CampusReturned =>
          \A i \in 1..24 :
              LET row == out.value.df_hourly[i]
              IN  /\ row.grid_import_kw >= 0
                  /\ row.grid_import_kw =
                        (IF row.solar_kw > row.total_demand_kw THEN 0
                         ELSE row.total_demand_kw - row.solar_kw)

C2_Witness ==
    /\ CampusReturned
    /\ \E i \in 1..24 :
          LET row == out.value.df_hourly[i]
          IN  /\ row.solar_kw > 0
              /\ row.grid_import_kw = row.total_demand_kw - row.solar_kw
              /\ row.grid_import_kw > 0

\* C3: in each hourly record solar_kw is 0 when hour < 6 or hour > 18 and
\* is at least 0 when 6 <= hour <= 18, whatever the jitter.
C3_SolarGatedToDaylight ==
    CampusReturned =>
        \A i \in 1..24 :
            LET row == out.value.df_hourly[i]
            IN  /\ row.hour = i - 1
                /\ (row.hour < 6 \/ row.hour > 18) => row.solar_kw = 0
                /\ (6 <= row.hour /\ row.hour <= 18) => row.solar_kw >= 0

C3_Witness ==
    /\ CampusReturned
    /\ out.value.df_hourly[6].solar_kw = 0
    /\ out.value.df_hourly[7].solar_kw = 0
    /\ out.value.df_hourly[8].solar_kw > 0
    /\ out.value.df_hourly[13].solar_kw > 20000000
    /\ out.value.df_hourly[19].solar_kw = 0
    /\ out.value.df_hourly[20].solar_kw = 0

\* C4: in every returned snapshot aqi_category is the step function of the
\* snapshot's own reported pm25 (tenths): Good below 50, Moderate below 100,
\* Poor otherwise; a reported 50.0 is Moderate.
C4_CategoryOfReportedPm25 ==
    sensor_data # None =>
        sensor_data.air_quality.aqi_category =
            ( IF sensor_data.air_quality.pm25 < 500 THEN "Good"
              ELSE IF sensor_data.air_quality.pm25 < 1000 THEN "Moderate"
              ELSE "Poor" )

\* C5: in every returned snapshot temp_delta equals the reported indoor_temp_c
\* minus the reported outdoor_temp_c (tenths).
C5_DeltaOfReportedTemps ==
    sensor_data # None =>
        sensor_data.thermal.temp_delta =
            sensor_data.thermal.indoor_temp_c - sensor_data.thermal.outdoor_temp_c

\* C6: while an entry of the cache is not invalidated, every call of that
\* memoized generator returns the stored table, makes no random draw and
\* leaves the entry as it is.
C6_MemoizedCallReturnsStoredTable ==
    [][ \A f \in Functions :
          (cache[f] # None /\ cache'[f] # None) =>
              /\ cache'[f] = cache[f]
              /\ out'.fn = f =>
                    (out'.value = cache[f].value /\ rng' = rng) ]_vars

C6_Witness ==
    /\ out # None
    /\ out.session # out.by
    /\ cache[out.fn] # None
    /\ out.value = cache[out.fn].value
    /\ rng >= 1

\* C7: a table computed and cached on behalf of one session is never
\* returned to another session.
C7_NoTableReturnedAcrossSessions ==
    out # None => out.by = out.session

\* the day after a date, from the lengths of the months
NextDay(date) ==
    IF date[3] < DaysInMonth(date[1], date[2]) THEN <<date[1], date[2], date[3] + 1>>
    ELSE IF date[2] < 12 THEN <<date[1], date[2] + 1, 1>>
    ELSE <<date[1] + 1, 1, 1>>

ConsecutiveDays(table) ==
    \A i \in 1..(Len(table) - 1) : table[i + 1].date = NextDay(table[i].date)

\* the dates the generator's date arithmetic gives from another start date
DatesFrom(start) == [i \in 1..DayCount |-> DatePlusDays(start, i - 1)]

\* C8 as stated: 3650 records on consecutive days, and a series starting
\* 2014-01-01 ends on 2023-12-27.
C8_SeriesEnds20231227 ==
    DailyReturned =>
        /\ Len(out.value) = 3650
        /\ ConsecutiveDays(out.value)
        /\ DatesFrom(<<2014, 1, 1>>)[1] = <<2014, 1, 1>>
        /\ DatesFrom(<<2014, 1, 1>>)[3650] = <<2023, 12, 27>>

\* C8 amended: 3650 records on consecutive days in increasing order; the
\* series starts on 2016-01-01, a winter month (temperature 2.0 to 8.0), and
\* ends on 2025-12-28; a series starting 2014-01-01 ends on 2023-12-29.
C8_SeriesOf3650ConsecutiveDays ==
    DailyReturned =>
        /\ Len(out.value) = 3650
        /\ ConsecutiveDays(out.value)
        /\ \A i \in 1..3650 :
              /\ out.value[i].year = out.value[i].date[1]
              /\ out.value[i].month = out.value[i].date[2]
              /\ out.value[i].day = out.value[i].date[3]
        /\ out.value[1].date = <<2016, 1, 1>>
        /\ out.value[1].temperature_c \in 20..80
        /\ out.value[3650].date = <<2025, 12, 28>>
        /\ DatesFrom(<<2014, 1, 1>>)[1] = <<2014, 1, 1>>
        /\ DatesFrom(<<2014, 1, 1>>)[3650] = <<2023, 12, 29>>

C8_Witness ==
    /\ DailyReturned
    /\ Len(out.value) = 3650
    /\ out.value[60].date = <<2016, 2, 29>>
    /\ out.value[61].date = <<2016, 3, 1>>
    /\ out.value[366].date = <<2016, 12, 31>>
    /\ out.value[367].date = <<2017, 1, 1>>

\* the partition of the months into seasons
SeasonMonths ==
    [ Winter |-> {12, 1, 2}, Summer |-> {3, 4, 5},
      Monsoon |-> {6, 7, 8, 9}, Autumn |-> {10, 11} ]

Seasons == DOMAIN SeasonMonths

SeasonOf(month) == CHOOSE sn \in Seasons : month \in SeasonMonths[sn]

\* the ranges each season selects: temperature and solar of the daily
\* generator, temperature, solar and rainfall of the monthly one
SeasonRanges ==
    [ Winter  |-> [dtemp |-> <<2, 8>>, dsolar |-> <<400, 700>>,
                   temp |-> <<2, 8>>, solar |-> <<3000, 4500>>, rain |-> <<40, 80>>],
      Summer  |-> [dtemp |-> <<12, 20>>, dsolar |-> <<800, 1200>>,
                   temp |-> <<15, 22>>, solar |-> <<6000, 8000>>, rain |-> <<30, 60>>],
      Monsoon |-> [dtemp |-> <<18, 24>>, dsolar |-> <<300, 600>>,
                   temp |-> <<18, 25>>, solar |-> <<2500, 4000>>, rain |-> <<150, 300>>],
      Autumn  |-> [dtemp |-> <<8, 15>>, dsolar |-> <<500, 800>>,
                   temp |-> <<12, 18>>, solar |-> <<4500, 6000>>, rain |-> <<20, 40>>] ]

\* C9: every month 1..12 lies in exactly one season of the partition, and
\* the ranges of temperature and solar in the daily records and of
\* temperature, solar and rainfall in the monthly records are those of the
\* season of the record's month.
C9_SeasonIsFunctionOfMonth ==
    /\ \A month \in 1..12 :
          Cardinality({sn \in Seasons : month \in SeasonMonths[sn]}) = 1
    /\ DailyReturned =>
          \A i \in 1..Len(out.value) :
              LET row == out.value[i]
                  r   == SeasonRanges[SeasonOf(row.month)]
                  k   == 100 + (row.year - 2016)
              IN  /\ row.month \in 1..12
                  /\ r.dtemp[1] * 10 <= row.temperature_c
                  /\ row.temperature_c <= r.dtemp[2] * 10
                  /\ (r.dsolar[1] * k) \div 10 <= row.solar_kwh
                  /\ row.solar_kwh <= (r.dsolar[2] * k) \div 10
    /\ CampusReturned =>
          \A i \in 1..Len(out.value.df_monthly) :
              LET row == out.value.df_monthly[i]
                  r   == SeasonRanges[SeasonOf(row.month)]
                  dy  == row.year - 2016
              IN  /\ row.month \in 1..12
                  /\ r.temp[1] * 10 + 2 * dy <= row.temperature
                  /\ row.temperature <= r.temp[2] * 10 + 2 * dy
                  /\ (r.solar[1] * 9) \div 10 <= row.solar_kwh
                  /\ row.solar_kwh <= (r.solar[2] * 11) \div 10
                  /\ r.rain[1] * 7 <= row.rainfall_mm
                  /\ row.rainfall_mm <= r.rain[2] * 13

C9_Witness ==
    /\ DailyReturned
    /\ \A sn \in Seasons :
          \E i \in 1..Len(out.value) : SeasonOf(out.value[i].month) = sn
    /\ \E i \in 1..Len(out.value) :
          /\ out.value[i].month = 6
          /\ out.value[i].solar_kwh < 7000
          /\ out.value[i].temperature_c > 200

\* C10: in every daily record pm25 is at least 25 and at most 250 (tenths:
\* 250..2500) for every draw and every year; a humidity value, where one is
\* produced, is between 20 and 100.
C10_ClampedMetricsInDomain ==
    /\ DailyReturned =>
          \A i \in 1..Len(out.value) :
              /\ 250 <= out.value[i].pm25
              /\ out.value[i].pm25 <= 2500
    /\ sensor_data # None =>
          /\ 200 <= sensor_data.thermal.humidity_pct
          /\ sensor_data.thermal.humidity_pct <= 1000

C10_Witness ==
    /\ DailyReturned
    /\ \E i, j \in 1..Len(out.value) :
          /\ out.value[i].pm25 = 280 /\ out.value[i].year = 2025
          /\ out.value[j].pm25 = 1040

\* the demand range of the evening branch for one building, unit 1e-4 kW
InEveningRange(kw, data) ==
    /\ data.base_energy * data.peak_factor * 850 <= kw
    /\ kw <= data.base_energy * data.peak_factor * 1150

\* a building with base_energy 1000 and peak_factor 1.5
ExampleBuilding == [base_energy |-> 1000, peak_factor |-> 15]

\* C11 as stated: for every building and every hour of the evening period
\* 18..23 the hourly demand lies between base_energy * peak_factor * 0.85
\* and base_energy * peak_factor * 1.15.
C11_EveningRangeFrom18 ==
    CampusReturned =>
        \A i \in 1..Len(out.value.df_hourly) :
            LET row == out.value.df_hourly[i]
            IN  (18 <= row.hour /\ row.hour <= 23) =>
                    \A b \in 1..Len(buildings) : InEveningRange(row.kw[b], buildings[b])

\* C11 amended: for every building and every hour 19..23 the hourly demand
\* lies between base_energy * peak_factor * 0.85 and base_energy *
\* peak_factor * 1.15 (1275 to 1725 kW for base_energy 1000 and peak_factor
\* 1.5, as at hour 20); at hour 18 the daytime branch applies and the demand
\* lies between base_energy * 0.8 * 0.85 and base_energy * 0.8 * 1.15.
C11_EveningDemandInRange ==
    /\ CampusReturned =>
          \A i \in 1..Len(out.value.df_hourly) :
              LET row == out.value.df_hourly[i]
              IN  /\ (19 <= row.hour /\ row.hour <= 23) =>
                        \A b \in 1..Len(buildings) :
                            InEveningRange(row.kw[b], buildings[b])
                  /\ row.hour = 18 =>
                        \A b \in 1..Len(buildings) :
                            /\ buildings[b].base_energy * 8 * 850 <= row.kw[b]
                            /\ row.kw[b] <= buildings[b].base_energy * 8 * 1150
    /\ \A hour \in 19..23 : \A k \in 0..StreamLevels :
          LET kw == Demand(hour, ExampleBuilding, (k * 1000) \div StreamLevels)
          IN  12750000 <= kw /\ kw <= 17250000

C11_Witness ==
    /\ CampusReturned
    /\ \E i, j \in 1..Len(out.value.df_hourly) :
          /\ out.value.df_hourly[i].hour = 20
          /\ InEveningRange(out.value.df_hourly[i].kw[5], buildings[5])
          /\ out.value.df_hourly[i].kw[5] > buildings[5].base_energy * 8 * 1150
          /\ out.value.df_hourly[j].hour = 18
          /\ ~InEveningRange(out.value.df_hourly[j].kw[5], buildings[5])
    /\ Demand(20, ExampleBuilding, 0) = 12750000
    /\ Demand(20, ExampleBuilding, 1000) = 17250000

\* the kWh of solar energy per hour of sunshine, unit 0.1 kWh: any constant
\* of the linear relation solar = sunshine_hours * constant * uniform(0.8, 1.3)
SunshineConstants == 1..20000

\* C12: every daily record carries the sunshine hours sampled for it (0 to
\* 11 hours), and its solar energy lies between 0.8 and 1.3 times
\* sunshine_hours times one constant, so that solar energy is derived from
\* the record's sunshine hours and not sampled on its own.
C12_SolarDerivedFromSunshine ==
    DailyReturned =>
        /\ \A i \in 1..Len(out.value) :
              /\ "sunshine_hours" \in DOMAIN out.value[i]
              /\ 0 <= out.value[i].sunshine_hours
              /\ out.value[i].sunshine_hours <= 110
        /\ \E c \in SunshineConstants :
              \A i \in 1..Len(out.value) :
                  /\ 8 * out.value[i].sunshine_hours * c <= 100 * out.value[i].solar_kwh
                  /\ 100 * out.value[i].solar_kwh <= 13 * out.value[i].sunshine_hours * c

C14_Pm10DerivedFromPm25 ==
    /\ sensor_data # None =>
          LET aq == sensor_data.air_quality
          IN  /\ aq.pm10 > aq.pm25
              /\ 12 * aq.pm25 - 11 <= 10 * aq.pm10
              /\ 10 * aq.pm10 <= 18 * aq.pm25 + 14
    /\ DailyReturned =>
          \A i \in 1..Len(out.value) :
              LET row == out.value[i]
              IN  /\ 16 * row.pm25 - 13 <= 10 * row.pm10
                  /\ 10 * row.pm10 <= 16 * row.pm25 + 13

C14_Witness ==
    /\ DailyReturned
    /\ \E i \in 1..Len(out.value) :
          out.value[i].pm25 = 1040 /\ out.value[i].pm10 = 1664

\* the record of hour 18 in an hourly table
Hour18(table) == table[CHOOSE i \in 1..Len(table) : table[i].hour = 18]

\* C15 as stated: at hour 18 a building's demand is counted under the
\* daytime and under the evening condition, and both contributions,
\* base_energy * 0.8 and base_energy * peak_factor, enter the demand of the
\* building and the total.
C15_Hour18CountedTwice ==
    CampusReturned =>
        LET row == Hour18(out.value.df_hourly)
        IN  /\ \A b \in 1..Len(buildings) :
                  /\ buildings[b].base_energy * (8 + buildings[b].peak_factor) * 850
                        <= row.kw[b]
                  /\ row.kw[b]
                        <= buildings[b].base_energy * (8 + buildings[b].peak_factor) * 1150
            /\ row.total_demand_kw
                  >= SumOver([b \in 1..Len(buildings) |->
                                 buildings[b].base_energy * (8 + buildings[b].peak_factor) * 850],
                             1..Len(buildings))

\* C15 amended: at hour 18 a building's demand is counted once, under the
\* daytime condition only (the evening condition is an elif): it is
\* base_energy * 0.8 times the variation 0.85 to 1.15, and the total of hour
\* 18 is the sum of these; the evening contribution enters from hour 19 on.
C15_Hour18CountedOnceAsDaytime ==
    CampusReturned =>
        LET row == Hour18(out.value.df_hourly)
        IN  /\ \A b \in 1..Len(buildings) :
                  /\ buildings[b].base_energy * 8 * 850 <= row.kw[b]
                  /\ row.kw[b] <= buildings[b].base_energy * 8 * 1150
            /\ row.total_demand_kw = SumOver(row.kw, 1..Len(buildings))
            /\ row.total_demand_kw
                  <= SumOver([b \in 1..Len(buildings) |->
                                 buildings[b].base_energy * 8 * 1150],
                             1..Len(buildings))

C15_Witness ==
    /\ CampusReturned
    /\ Hour18(out.value.df_hourly).hour = 18
    /\ Hour18(out.value.df_hourly).solar_kw = 0
    /\ \A b \in 1..Len(buildings) :
          Hour18(out.value.df_hourly).kw[b]
              < buildings[b].base_energy * buildings[b].peak_factor * 850

\* the order of two dates <<year, month, day>>, field by field
DateLE(a, b) ==
    \/ a[1] < b[1]
    \/ a[1] = b[1] /\ a[2] < b[2]
    \/ a[1] = b[1] /\ a[2] = b[2] /\ a[3] <= b[3]

\* the rows of a table dated from start to end, both inclusive, in the order
\* of the table
RowsBetween(table, start, end) ==
    SelectSeq(table, LAMBDA row : DateLE(start, row.date) /\ DateLE(row.date, end))

\* C16: on the 10-Year Daily Data page the filtered table is exactly the
\* rows of the memoized daily table whose date d has start_date <= d <=
\* end_date, both ends inclusive, in the order of the table; a run of the
\* page leaves the memoized table as it was; with start_date after end_date
\* the filtered table is empty and nothing is raised.
C16_FilterSelectsInclusiveRange ==
    [][ (out'.fn = "daily_data_page") =>
          LET f     == "generate_daily_historical_data"
              table == cache'[f].value
          IN  /\ out'.filtered_df
                    = RowsBetween(table, out'.start_date, out'.end_date)
              /\ cache[f] # None => cache'[f] = cache[f]
              /\ Len(table) = DayCount
              /\ out'.raised = ""
              /\ ~DateLE(out'.start_date, out'.end_date) => out'.filtered_df = << >>
      ]_vars

C16_Witness ==
    /\ out # None
    /\ out.fn = "daily_data_page"
    /\ out.session # cache["generate_daily_historical_data"].by
    /\ out.start_date = <<2020, 2, 29>>
    /\ out.end_date = <<2025, 12, 27>>
    /\ Len(out.filtered_df) = 2129
    /\ out.filtered_df[1].date = <<2020, 2, 29>>
    /\ out.filtered_df[2129].date = <<2025, 12, 27>>

\* C17: for each of the nine options of the sidebar, a rerun with that
\* option selected renders the page body written for it and no other: Live
\* Sensors reaches the body that calls simulate_sensor_data and 10-Year
\* Daily Data the body that calls generate_daily_historical_data; neither is
\* taken by the System Architecture else that stands before them.
C17_EachOptionRendersItsOwnBody ==
    (out # None /\ out.fn = "rerun") =>
        /\ out.body = out.page
        /\ out.page = "Live Sensors" =>
              /\ "simulate_sensor_data" \in out.calls
              /\ sensor_data # None
        /\ out.page = "10-Year Daily Data" =>
              /\ "generate_daily_historical_data" \in out.calls
              /\ cache["generate_daily_historical_data"] # None

\* a step of the model is a rerun of the Scenario Analysis page by session s
ScenarioRerunBy(s) ==
    /\ out'.fn = "rerun"
    /\ out'.session = s
    /\ out'.body = "Scenario Analysis"
    /\ rng' # rng

\* C18: the results panel of Scenario Analysis is sticky per session.  While
\* the session has never clicked Analyze Scenario (its flag last_analysis is
\* unset, and only a click sets it), a rerun of the page without a click
\* shows only the hint; a click sets the flag; once it is set, every later
\* rerun of the page in that session shows the results computed from the
\* current widget values, click or no click; the flag is never cleared, and
\* the flag of the other session is not touched.
C18_ResultsPanelStickyPerSession ==
    [][ \A s \in Sessions :
          LET before == "last_analysis" \in session_state[s]
              after  == "last_analysis" \in session_state'[s]
          IN  /\ before => after
              /\ (~before /\ after) => (ScenarioRerunBy(s) /\ out'.analyze)
              /\ ScenarioRerunBy(s) =>
                    /\ (~before /\ ~out'.analyze) =>
                          (out'.panel = "hint" /\ out'.results = None /\ ~after)
                    /\ out'.analyze => after
                    /\ (before \/ out'.analyze) =>
                          /\ out'.panel = "results"
                          /\ out'.results = ScenarioResults(out'.widgets)
      ]_vars

C18_Witness ==
    /\ out # None
    /\ out.fn = "rerun"
    /\ out.body = "Scenario Analysis"
    /\ ~out.analyze
    /\ out.panel = "results"
    /\ out.widgets # DefaultWidgets
    /\ session_state[out.session] = {"last_analysis"}
    /\ \E t \in Sessions : session_state[t] = {}

\* the factors of the claim, in twentieths
ClaimFactors ==
    [ Poor |-> 20, Standard |-> 18, High |-> 15,
      Single |-> 20, Double |-> 17, Triple |-> 15,
      Conventional |-> 20, LED |-> 17 ]

\* 15000 * insulation * window * lighting * (0.8 + 0.4 * occupancy/100) *
\* (3.5 / COP) - solar_area * 150 / 365, times 1168 * COP (COP in tenths)
ClaimedEnergyTimesDen(w) ==
    1533 * ( ClaimFactors[w.insulation] * ClaimFactors[w.windows]
                 * ClaimFactors[w.lighting] * (40 + w.occupancy \div 5) )
        - 480 * w.solar_area * w.hvac_cop

\* C19: for every combination of the inputs the displayed daily energy is
\* never below 5000: it is max(5000, 15000 * insulation factor * window
\* factor * lighting factor * (0.8 + 0.4 * occupancy/100) * (3.5 / COP) -
\* solar_area * 150 / 365); the solar payback is computed only when
\* solar_area > 0.
C19_EnergyClampedAt5000 ==
    (out # None /\ out.fn = "scenario_results") =>
        LET w   == out.widgets
            r   == out.results
            den == 1168 * w.hvac_cop
        IN  /\ r.daily_energy >= 5000
            /\ r.energy_den = den
            /\ r.energy_num >= 5000 * den
            /\ r.energy_num = Max(5000 * den, ClaimedEnergyTimesDen(w))
            /\ (r.payback # None) <=> (w.solar_area > 0)

C19_Witness ==
    /\ out # None
    /\ out.fn = "scenario_results"
    /\ out.widgets.insulation = "High"
    /\ out.widgets.solar_area = 0
    /\ ClaimedEnergyTimesDen(out.widgets) < 5000 * out.results.energy_den
    /\ out.results.daily_energy = 5000
    /\ out.results.payback = None

\* C20: for every month, hour and draw a sensor snapshot never has the
\* category Poor (its pm25 is below 100) and its temp_delta is between 8 and
\* 12, so the Live Sensors page never shows 'Insulation performing well'
\* (temp_delta > 15).  Reported values in tenths.
C20_NeverPoorNeverPerformingWell ==
    sensor_data # None =>
        /\ sensor_data.air_quality.aqi_category # "Poor"
        /\ sensor_data.air_quality.aqi_category \in {"Good", "Moderate"}
        /\ sensor_data.air_quality.pm25 < 1000
        /\ 80 <= sensor_data.thermal.temp_delta
        /\ sensor_data.thermal.temp_delta <= 120
        /\ InsulationIndicator(sensor_data.thermal.temp_delta)
              # "Insulation performing well"

C20_Witness ==
    /\ sensor_data # None
    /\ inp.month = 6
    /\ inp.u.pm25 = 1000
    /\ inp.u.ind = 1000
    /\ sensor_data.air_quality.pm25 > 950
    /\ sensor_data.air_quality.aqi_category = "Moderate"
    /\ sensor_data.thermal.temp_delta = 120
    /\ InsulationIndicator(sensor_data.thermal.temp_delta) = "Insulation adequate"

====
